---------------------------- MODULE Spec2Model ----------------------------
(***************************************************************************)
(* SmartPlate frontend: the auth context (AuthProvider), the auth page     *)
(* (Auth) and the map widget (MapComponent), as state machines.            *)
(*                                                                         *)
(* One action is one run of a handler of the single-threaded UI: the       *)
(* handler, the re-render its state updates cause, and the effects that    *)
(* re-render runs (a useEffect runs when one of its dependencies changed). *)
(* A request in flight is state; its settling is a later action.           *)
(*                                                                         *)
(* `calls' is the sequence of library calls (axios, toast, navigate,       *)
(* localStorage, Leaflet) made by the last action, in program order, and   *)
(* `event' names the handler that ran with its input.                      *)
(***************************************************************************)
EXTENDS Integers, Sequences, FiniteSets

VARIABLES
    mounted,        \* AuthProvider has rendered and run its first effect
    token,          \* useState token          (part_000:10)
    user,           \* useState user           (part_000:9)
    loading,        \* useState loading        (part_000:13)
    storage,        \* window.localStorage: key -> string, for the keys present
    pendingMe,      \* GET /auth/me requests in flight, per bearer token
    tab,            \* Auth page: useState tab      (Auth.js:23)
    pageLoading,    \* Auth page: useState loading  (Auth.js:24)
    posts,          \* POST requests of the Auth page in flight
    calls,          \* library calls made by the last action, in order
    event,          \* the last handler run and its input
    mapMounted,     \* MapComponent is mounted
    mapInstanceRef, \* mapInstanceRef.current  (part_001:44)
    markersRef,     \* markersRef.current      (part_001:45)
    liveMaps,       \* Leaflet maps created by L.map and not yet remove()d
    layers,         \* marker layers on the live map
    view,           \* the view of the live map, from setView
    markersProp,    \* the markers prop of the last render
    centerProp      \* the center prop of the last render

authVars == <<mounted, token, user, loading, storage, pendingMe, tab,
              pageLoading, posts>>
mapVars  == <<mapMounted, mapInstanceRef, markersRef, liveMaps, layers, view,
              markersProp, centerProp>>
vars     == <<authVars, mapVars, calls, event>>

-----------------------------------------------------------------------------
(* Bounds of the model *)

MaxPendingMe == 2       \* profile requests in flight at once
MaxMarkers == 2         \* length of the markers prop

(* Values *)

Null    == "<null>"             \* null / undefined in a string-typed slot
NullObj == [null |-> TRUE]      \* null / undefined in an object-typed slot

Tokens == {"tokA", "tokB"}
Users  == {[id |-> "u1", role |-> "donor"], [id |-> "u2", role |-> "ngo"],
           [id |-> "u3", role |-> "volunteer"]}

TOKEN_KEY == "smartplate_token"
API == "/api"

(* Truthiness of a string or null, and of an object or null *)
Truthy(x) == x # Null /\ x # ""
TruthyObj(x) == x # NullObj

(* x || y of JavaScript *)
Or(x, y) == IF Truthy(x) THEN x ELSE y

Call(fn, arg) == [fn |-> fn, arg |-> arg]

CallsOf(cs, fn) == SelectSeq(cs, LAMBDA c : c.fn = fn)

-----------------------------------------------------------------------------
(* window.localStorage *)

getItem(s, k) == IF k \in DOMAIN s THEN s[k] ELSE Null

setItem(s, k, v) == [x \in DOMAIN s \cup {k} |-> IF x = k THEN v ELSE s[x]]

removeItem(s, k) == [x \in DOMAIN s \ {k} |-> s[x]]

EmptyStorage == [x \in {} |-> ""]

-----------------------------------------------------------------------------
(* AuthProvider.  A context state is a record st of the component's state  *)
(* and of what it has done to the outside.                                 *)

Cur == [token |-> token, user |-> user, loading |-> loading,
        storage |-> storage, pendingMe |-> pendingMe,
        pageLoading |-> pageLoading, posts |-> posts, calls |-> <<>>]

Commit(st) ==
    /\ token' = st.token
    /\ user' = st.user
    /\ loading' = st.loading
    /\ storage' = st.storage
    /\ pendingMe' = st.pendingMe
    /\ pageLoading' = st.pageLoading
    /\ posts' = st.posts
    /\ calls' = st.calls

RECURSIVE Sum(_, _)
Sum(f, S) == IF S = {} THEN 0
             ELSE LET x == CHOOSE y \in S : TRUE IN f[x] + Sum(f, S \ {x})

PendingCount(pm) == Sum(pm, DOMAIN pm)

setAuth(st, newToken, newUser) ==
    [st EXCEPT !.storage = setItem(@, TOKEN_KEY, newToken),
               !.calls = Append(@, Call("localStorage.setItem", newToken)),
               !.token = newToken,
               !.user = newUser]

(* logout that forgets the stored token *)
logoutKeepsStored(st) ==
    [st EXCEPT !.token = Null, !.user = NullObj]

logout(st) ==
    [st EXCEPT !.storage = removeItem(@, TOKEN_KEY),
               !.calls = Append(@, Call("localStorage.removeItem", TOKEN_KEY)),
               !.token = Null,
               !.user = NullObj]

(* fetchUser that raises the loading flag while its request is in flight *)
fetchUserShowsLoading(st) ==
    IF ~Truthy(st.token)
    THEN [st EXCEPT !.loading = FALSE]
    ELSE [st EXCEPT !.loading = TRUE,
                    !.pendingMe[st.token] = @ + 1,
                    !.calls = Append(@, Call("axios.get", st.token))]

(* fetchUser up to its await: the body of the effect *)
fetchUser(st) ==
    IF ~Truthy(st.token)
    THEN [st EXCEPT !.loading = FALSE]
    ELSE [st EXCEPT !.pendingMe[st.token] = @ + 1,
                    !.calls = Append(@, Call("axios.get", st.token))]

(* fetchUserThen that drops the answer to a request of another session *)
fetchUserThenIfCurrent(st, tok, data) ==
    IF st.token = tok
    THEN [st EXCEPT !.user = data, !.loading = FALSE]
    ELSE [st EXCEPT !.loading = FALSE]

(* fetchUser after its await, the request having succeeded with res.data;  *)
(* tok is the token of the render whose effect sent the request, which the *)
(* closure still holds and does not look at.                               *)
fetchUserThen(st, tok, data) ==
    [st EXCEPT !.user = data, !.loading = FALSE]

(* fetchUserCatch that clears the user and the stored token only *)
fetchUserCatchKeepsToken(st, tok) ==
    [st EXCEPT !.storage = removeItem(@, TOKEN_KEY),
               !.calls = Append(@, Call("localStorage.removeItem", TOKEN_KEY)),
               !.user = NullObj,
               !.loading = FALSE]

(* fetchUser after its await, the request having failed *)
fetchUserCatch(st, tok) ==
    [st EXCEPT !.storage = removeItem(@, TOKEN_KEY),
               !.calls = Append(@, Call("localStorage.removeItem", TOKEN_KEY)),
               !.token = Null,
               !.user = NullObj,
               !.loading = FALSE]

(* render whose effect has no dependency list: it runs after every render *)
renderAlways(prev, st) == fetchUser(st)

(* The re-render after a handler: useEffect(..., [token]) runs again when  *)
(* the token of this render differs from the token of the previous one.    *)
render(prev, st) ==
    IF st.token # prev.token THEN fetchUser(st) ELSE st

-----------------------------------------------------------------------------
(* Auth page *)

LOGIN_URL    == API \o "/auth/login"
REGISTER_URL == API \o "/auth/register"

Emails    == {"", "a@x.org"}
Passwords == {"", "pw1", "pw2"}
Names     == {"", "Ann"}
FormRoles == {"donor", "ngo", "volunteer"}

SigninForms == [email : Emails, password : Passwords]
SignupForms == [name : Names, email : Emails, password : Passwords,
                confirm : Passwords, role : FormRoles]

(* What the server answers: {token, user} on success; on failure an error  *)
(* whose response.data.detail is absent, empty or a message.               *)
Responses == [token : Tokens, user : Users]
Details   == {Null, "", "Invalid credentials"}

toastError(st, msg)   == [st EXCEPT !.calls = Append(@, Call("toast.error", msg))]
toastSuccess(st, msg) == [st EXCEPT !.calls = Append(@, Call("toast.success", msg))]
navigate(st, path)    == [st EXCEPT !.calls = Append(@, Call("navigate", path))]
axiosPost(st, url, body) ==
    [st EXCEPT !.posts = @ \cup {[url |-> url, body |-> body]},
               !.calls = Append(@, Call("axios.post", url))]

(* handleSignIn up to its await *)
handleSignIn(st, signin) ==
    IF ~Truthy(signin.email) \/ ~Truthy(signin.password)
    THEN toastError(st, "Fill all fields")
    ELSE axiosPost([st EXCEPT !.pageLoading = TRUE], LOGIN_URL, signin)

(* handleSignInThen that redirects before it sets the session *)
handleSignInThenNavigateFirst(st, data) ==
    LET s1 == navigate(st, "/" \o data.user.role \o "-dashboard")
        s2 == setAuth(s1, data.token, data.user)
        s3 == toastSuccess(s2, "Welcome back!")
    IN [s3 EXCEPT !.pageLoading = FALSE]

(* handleSignIn after its await: try body, then finally *)
handleSignInThen(st, data) ==
    LET s1 == setAuth(st, data.token, data.user)
        s2 == toastSuccess(s1, "Welcome back!")
        s3 == navigate(s2, "/" \o data.user.role \o "-dashboard")
    IN [s3 EXCEPT !.pageLoading = FALSE]

(* handleSignInCatch without the finally block *)
handleSignInCatchNoFinally(st, detail) ==
    toastError(st, Or(detail, "Login failed"))

(* handleSignIn after its await: catch, then finally *)
handleSignInCatch(st, detail) ==
    [toastError(st, Or(detail, "Login failed")) EXCEPT !.pageLoading = FALSE]

(* handleSignUp without the comparison of password and confirmation *)
handleSignUpNoConfirm(st, signup) ==
    IF ~Truthy(signup.name) \/ ~Truthy(signup.email) \/ ~Truthy(signup.password)
    THEN toastError(st, "Fill all fields")
    ELSE axiosPost([st EXCEPT !.pageLoading = TRUE], REGISTER_URL,
                   [name |-> signup.name, email |-> signup.email,
                    password |-> signup.password, role |-> signup.role])

(* handleSignUp up to its await *)
handleSignUp(st, signup) ==
    IF ~Truthy(signup.name) \/ ~Truthy(signup.email) \/ ~Truthy(signup.password)
    THEN toastError(st, "Fill all fields")
    ELSE IF signup.password # signup.confirm
    THEN toastError(st, "Passwords do not match")
    ELSE axiosPost([st EXCEPT !.pageLoading = TRUE], REGISTER_URL,
                   [name |-> signup.name, email |-> signup.email,
                    password |-> signup.password, role |-> signup.role])

handleSignUpThen(st, data) ==
    LET s1 == setAuth(st, data.token, data.user)
        s2 == toastSuccess(s1, "Account created!")
        s3 == navigate(s2, "/select-role")
    IN [s3 EXCEPT !.pageLoading = FALSE]

handleSignUpCatch(st, detail) ==
    [toastError(st, Or(detail, "Registration failed")) EXCEPT !.pageLoading = FALSE]

-----------------------------------------------------------------------------
(* Actions of the auth context and the auth page *)

Ev(name, in) == [name |-> name, in |-> in]

(* First render of AuthProvider and the first run of its effect *)
Mount ==
    /\ ~mounted
    /\ mounted' = TRUE
    /\ Commit(fetchUser([Cur EXCEPT !.token = getItem(storage, TOKEN_KEY)]))
    /\ event' = Ev("mount", NullObj)
    /\ UNCHANGED <<tab, mapVars>>

Logout ==
    /\ mounted
    /\ Commit(render(Cur, logout(Cur)))
    /\ event' = Ev("logout", NullObj)
    /\ UNCHANGED <<mounted, tab, mapVars>>

(* A profile request sent with bearer t succeeds with the profile data *)
MeResolved(t, data) ==
    /\ pendingMe[t] > 0
    /\ LET st == [Cur EXCEPT !.pendingMe[t] = @ - 1]
       IN Commit(render(st, fetchUserThen(st, t, data)))
    /\ event' = Ev("meResolved", [bearer |-> t, data |-> data, current |-> token])
    /\ UNCHANGED <<mounted, tab, mapVars>>

(* A profile request sent with bearer t fails *)
MeRejected(t) ==
    /\ pendingMe[t] > 0
    /\ LET st == [Cur EXCEPT !.pendingMe[t] = @ - 1]
       IN Commit(render(st, fetchUserCatch(st, t)))
    /\ event' = Ev("meRejected", [bearer |-> t, current |-> token])
    /\ UNCHANGED <<mounted, tab, mapVars>>

SetTab(x) ==
    /\ mounted
    /\ tab' = x
    /\ calls' = <<>>
    /\ event' = Ev("setTab", [tab |-> x])
    /\ UNCHANGED <<mounted, token, user, loading, storage, pendingMe,
                   pageLoading, posts, mapVars>>

(* The sign-in form is submitted; its button is disabled while loading *)
SubmitSignIn(signin) ==
    /\ mounted /\ tab = "signin" /\ ~pageLoading
    /\ Commit(render(Cur, handleSignIn(Cur, signin)))
    /\ event' = Ev("handleSignIn", signin)
    /\ UNCHANGED <<mounted, tab, mapVars>>

SubmitSignUp(signup) ==
    /\ mounted /\ tab = "signup" /\ ~pageLoading
    /\ Commit(render(Cur, handleSignUp(Cur, signup)))
    /\ event' = Ev("handleSignUp", signup)
    /\ UNCHANGED <<mounted, tab, mapVars>>

(* The state in which the continuation of the request req runs *)
Settled(req) == [Cur EXCEPT !.posts = @ \ {req}]

(* The request req settles; its continuation leaves the state after *)
Settle(req, after) ==
    /\ req \in posts
    /\ LET nx == render(Settled(req), after)
       IN /\ PendingCount(nx.pendingMe) <= MaxPendingMe
          /\ Commit(nx)
    /\ UNCHANGED <<mounted, tab, mapVars>>

LoginResolved(req, data) ==
    /\ req.url = LOGIN_URL
    /\ Settle(req, handleSignInThen(Settled(req), data))
    /\ event' = Ev("loginResolved", data)

LoginRejected(req, detail) ==
    /\ req.url = LOGIN_URL
    /\ Settle(req, handleSignInCatch(Settled(req), detail))
    /\ event' = Ev("loginRejected", [detail |-> detail])

RegisterResolved(req, data) ==
    /\ req.url = REGISTER_URL
    /\ Settle(req, handleSignUpThen(Settled(req), data))
    /\ event' = Ev("registerResolved", data)

RegisterRejected(req, detail) ==
    /\ req.url = REGISTER_URL
    /\ Settle(req, handleSignUpCatch(Settled(req), detail))
    /\ event' = Ev("registerRejected", [detail |-> detail])

-----------------------------------------------------------------------------
(* MapComponent over Leaflet.  A component state is a record m of its refs *)
(* and of the Leaflet objects it has made.                                 *)

DefaultZoom == 12

DefaultCenter == [lat |-> "28.6139", lng |-> "77.2090"]
Centers   == {DefaultCenter, [lat |-> "12.9716", lng |-> "77.5946"]}

ngoIcon     == "#1A4D2E"
donorIcon   == "#E07A5F"
defaultIcon == "#4A4A4A"

PosA == [lat |-> "28.61", lng |-> "77.20"]
PosB == [lat |-> "28.70", lng |-> "77.10"]

(* Entries of the markers prop: with and without a position, of each kind  *)
(* of icon, with and without a title; two of them at the same position.    *)
MarkerData ==
    { [position |-> PosA,    type |-> "ngo",     title |-> "Depot"],
      [position |-> PosB,    type |-> "donor",   title |-> Null],
      [position |-> PosA,    type |-> "shelter", title |-> Null],
      [position |-> NullObj, type |-> "ngo",     title |-> "Depot"] }

RECURSIVE SeqsUpTo(_, _)
SeqsUpTo(S, n) ==
    IF n = 0 THEN {<<>>}
    ELSE LET shorter == SeqsUpTo(S, n - 1)
         IN shorter \cup {Append(q, x) : q \in shorter, x \in S}

MarkerLists == SeqsUpTo(MarkerData, MaxMarkers)

Range(q) == {q[i] : i \in 1..Len(q)}

TheMap == [leaflet |-> "map"]

FreshRefs == [mapInstanceRef |-> NullObj, markersRef |-> <<>>,
              liveMaps |-> liveMaps, layers |-> {}, view |-> NullObj]

CurMap == [mapInstanceRef |-> mapInstanceRef, markersRef |-> markersRef,
           liveMaps |-> liveMaps, layers |-> layers, view |-> view]

CommitMap(m) ==
    /\ mapInstanceRef' = m.mapInstanceRef
    /\ markersRef' = m.markersRef
    /\ liveMaps' = m.liveMaps
    /\ layers' = m.layers
    /\ view' = m.view

(* The identities of the marker objects that exist before an effect runs;  *)
(* L.marker makes an object that is none of them.                          *)
MarkerIds == {k.id : k \in layers \cup Range(markersRef)}

NewId(used) == CHOOSE n \in 0..Cardinality(used) : n \notin used

iconOf(type) ==
    CASE type = "ngo" -> ngoIcon
      [] type = "donor" -> donorIcon
      [] OTHER -> defaultIcon

(* First effect: initialize the map only once *)
initEffect(m, center, zoom) ==
    IF ~TruthyObj(m.mapInstanceRef)
    THEN [m EXCEPT !.mapInstanceRef = TheMap,
                   !.liveMaps = @ + 1,
                   !.layers = {},
                   !.view = [center |-> center, zoom |-> zoom]]
    ELSE m

(* Cleanup of the first effect *)
initCleanup(m) ==
    IF TruthyObj(m.mapInstanceRef)
    THEN [m EXCEPT !.liveMaps = @ - 1,
                   !.layers = {},
                   !.view = NullObj,
                   !.mapInstanceRef = NullObj]
    ELSE m

(* Second effect: update center when it changes *)
centerEffect(m, center, zoom) ==
    IF TruthyObj(m.mapInstanceRef) /\ TruthyObj(center)
    THEN [m EXCEPT !.view = [center |-> center, zoom |-> zoom]]
    ELSE m

(* markersRef.current.forEach(marker => marker.remove()); markersRef.current = [] *)
clearMarkers(m) ==
    [m EXCEPT !.layers = @ \ Range(m.markersRef), !.markersRef = <<>>]

(* The body of markers.forEach for one entry *)
addMarker(m, markerData, used) ==
    IF TruthyObj(markerData.position)
    THEN LET marker == [id |-> NewId(used \cup {k.id : k \in m.layers}),
                        latlng |-> markerData.position,
                        icon |-> iconOf(markerData.type),
                        popup |-> IF Truthy(markerData.title)
                                  THEN "<strong>" \o markerData.title \o "</strong>"
                                  ELSE Null]
         IN [m EXCEPT !.layers = @ \cup {marker},
                      !.markersRef = Append(@, marker)]
    ELSE m

RECURSIVE addMarkers(_, _, _)
addMarkers(m, markers, used) ==
    IF markers = <<>> THEN m
    ELSE addMarkers(addMarker(m, Head(markers), used), Tail(markers), used)

(* markersEffect that adds the new markers without clearing the old ones *)
markersEffectNoClear(m, markers) ==
    IF ~TruthyObj(m.mapInstanceRef) THEN m
    ELSE addMarkers([m EXCEPT !.markersRef = <<>>], markers, MarkerIds)

(* Third effect: update markers *)
markersEffect(m, markers) ==
    IF ~TruthyObj(m.mapInstanceRef) THEN m
    ELSE addMarkers(clearMarkers(m), markers, MarkerIds)

(* Mount: the first render, then the three effects in order *)
MapMount(markers, center) ==
    /\ ~mapMounted
    /\ mapMounted' = TRUE
    /\ markersProp' = markers
    /\ centerProp' = center
    /\ CommitMap(markersEffect(
                   centerEffect(initEffect(FreshRefs, center, DefaultZoom),
                                center, DefaultZoom),
                   markers))
    /\ UNCHANGED <<authVars, calls, event>>

(* Unmount: the cleanup of the first effect; the instance and its refs go *)
MapUnmount ==
    /\ mapMounted
    /\ mapMounted' = FALSE
    /\ markersProp' = <<>>
    /\ centerProp' = NullObj
    /\ CommitMap([initCleanup(CurMap) EXCEPT !.markersRef = <<>>])
    /\ UNCHANGED <<authVars, calls, event>>

(* The parent renders with a new markers array *)
MarkersChange(markers) ==
    /\ mapMounted
    /\ markersProp' = markers
    /\ CommitMap(markersEffect(CurMap, markers))
    /\ UNCHANGED <<mapMounted, centerProp, authVars, calls, event>>

(* The parent renders with a new center *)
CenterChange(center) ==
    /\ mapMounted
    /\ centerProp' = center
    /\ CommitMap(centerEffect(CurMap, center, DefaultZoom))
    /\ UNCHANGED <<mapMounted, markersProp, authVars, calls, event>>

MapNext ==
    \/ \E l \in MarkerLists, c \in Centers : MapMount(l, c)
    \/ MapUnmount
    \/ \E l \in MarkerLists : MarkersChange(l)
    \/ \E c \in Centers : CenterChange(c)


-----------------------------------------------------------------------------

StoredTokens == {EmptyStorage} \cup {[k \in {TOKEN_KEY} |-> t] : t \in Tokens}

MapInit ==
    /\ mapMounted = FALSE
    /\ mapInstanceRef = NullObj
    /\ markersRef = <<>>
    /\ liveMaps = 0
    /\ layers = {}
    /\ view = NullObj
    /\ markersProp = <<>>
    /\ centerProp = NullObj

Init ==
    /\ mounted = FALSE
    /\ token = Null
    /\ user = NullObj
    /\ loading = TRUE
    /\ storage \in StoredTokens
    /\ pendingMe = [t \in Tokens |-> 0]
    /\ tab = "signin"
    /\ pageLoading = FALSE
    /\ posts = {}
    /\ calls = <<>>
    /\ event = Ev("init", NullObj)
    /\ MapInit

Next ==
    \/ Mount
    \/ Logout
    \/ \E t \in Tokens, data \in Users : MeResolved(t, data)
    \/ \E t \in Tokens : MeRejected(t)
    \/ \E x \in {"signin", "signup"} : SetTab(x)
    \/ \E f \in SigninForms : SubmitSignIn(f)
    \/ \E f \in SignupForms : SubmitSignUp(f)
    \/ \E req \in posts, data \in Responses : LoginResolved(req, data)
    \/ \E req \in posts, d \in Details : LoginRejected(req, d)
    \/ \E req \in posts, data \in Responses : RegisterResolved(req, data)
    \/ \E req \in posts, d \in Details : RegisterRejected(req, d)

(* The auth context with the auth page, which lives inside it *)
Spec == Init /\ [][Next]_vars

(* The map component, which shares no state with the auth context *)
MapSpec == Init /\ [][MapNext]_vars

(* Every profile request in flight settles, and the provider mounts *)
FairSpec ==
    /\ Spec
    /\ WF_vars(Mount)
    /\ WF_vars(\E t \in Tokens : (\E data \in Users : MeResolved(t, data)) \/ MeRejected(t))

-----------------------------------------------------------------------------
(* Properties *)

StoredToken == getItem(storage, TOKEN_KEY)

NoCall(cs, fn) == CallsOf(cs, fn) = <<>>

SessionUnchanged == token' = token /\ user' = user /\ storage' = storage

(* C1: in every state of the mounted auth context, if the in-memory token  *)
(* is absent then the user is absent.                                      *)
TokenAbsentImpliesUserAbsent ==
    (mounted /\ token = Null) => user = NullObj

(* C2: the stored token mirrors the in-memory token: from mount on, after  *)
(* every handler (setAuth, logout, a failed profile fetch among them) the  *)
(* value under 'smartplate_token' is the in-memory token, both absent or   *)
(* both the same; nothing but a token is ever written to storage.          *)
StoredTokenMirrorsToken ==
    /\ mounted => StoredToken = token
    /\ DOMAIN storage \subseteq {TOKEN_KEY}
    /\ \A k \in DOMAIN storage : storage[k] \in Tokens
    /\ \A i \in 1..Len(calls) :
          calls[i].fn = "localStorage.setItem" => calls[i].arg \in Tokens

(* C2 witness: a logout has cleared a session whose token was stored *)
LoggedOutOfStoredSession ==
    /\ event.name = "logout"
    /\ calls # <<>>
    /\ StoredToken = Null /\ token = Null
    /\ PendingCount(pendingMe) > 0

(* C3: when a profile fetch fails, the token and the user become null, the *)
(* stored token is removed, loading becomes false, no notification is      *)
(* shown and no profile request is sent (the failed one is not retried).   *)
FailedFetchClearsSilently ==
    [][event'.name = "meRejected" =>
          /\ token' = Null
          /\ user' = NullObj
          /\ getItem(storage', TOKEN_KEY) = Null
          /\ ~loading'
          /\ NoCall(calls', "toast.error") /\ NoCall(calls', "toast.success")
          /\ NoCall(calls', "axios.get")
          /\ PendingCount(pendingMe') = PendingCount(pendingMe) - 1
      ]_vars

(* C3 witness: the fetch of the current session has failed *)
CurrentFetchFailed ==
    /\ event.name = "meRejected"
    /\ event.in.bearer = event.in.current
    /\ token = Null /\ StoredToken = Null /\ ~loading

(* C4: one GET /api/auth/me with the current token as bearer at mount when *)
(* a token is stored, and one for each later change of the token to a      *)
(* different non-null value; none when the token is absent or unchanged.   *)
OneProfileRequestPerTokenChange ==
    [][LET gets == CallsOf(calls', "axios.get")
       IN IF ~mounted /\ mounted'
          THEN gets = IF StoredToken # Null
                      THEN <<Call("axios.get", StoredToken)>> ELSE <<>>
          ELSE IF token' # token /\ token' # Null
          THEN /\ gets = <<Call("axios.get", token')>>
               /\ pendingMe'[token'] > 0
          ELSE gets = <<>>
      ]_vars

(* C4 witness: setAuth was called with the token already held, and no      *)
(* request was sent                                                        *)
SameTokenNoRequest ==
    /\ event.name \in {"loginResolved", "registerResolved"}
    /\ token = event.in.token
    /\ NoCall(calls, "axios.get")

(* C5: when the login or registration request is rejected, the page shows  *)
(* exactly one error notification (the server's detail if it gave a        *)
(* non-empty one, otherwise 'Login failed' / 'Registration failed'), does  *)
(* not call setAuth, does not redirect, does not send the request again,   *)
(* and resets its loading flag.                                            *)
RejectedShowsOneError ==
    [][event'.name \in {"loginRejected", "registerRejected"} =>
          LET detail == event'.in.detail
              generic == IF event'.name = "loginRejected"
                         THEN "Login failed" ELSE "Registration failed"
          IN /\ calls' = <<Call("toast.error",
                                IF detail \in {Null, ""} THEN generic ELSE detail)>>
             /\ SessionUnchanged
             /\ posts' \subseteq posts
             /\ ~pageLoading'
      ]_vars

(* C5 witness: a login was rejected with a detail, which is shown *)
LoginRejectedWithDetail ==
    /\ event.name = "loginRejected"
    /\ event.in.detail = "Invalid credentials"
    /\ calls = <<Call("toast.error", "Invalid credentials")>>

(* C6: on a successful login or registration response {token, user} the    *)
(* page first sets the session with exactly that token and user and then   *)
(* redirects, to '/<role>-dashboard' after login and to '/select-role'     *)
(* after registration; no redirect happens without the session having been *)
(* set before it by the same handler.                                      *)
SetThenRedirect(data, path) ==
    /\ calls'[1] = Call("localStorage.setItem", data.token)
    /\ CallsOf(calls', "navigate") = <<Call("navigate", path)>>
    /\ token' = data.token
    /\ user' = data.user
    /\ getItem(storage', TOKEN_KEY) = data.token

SessionSetBeforeRedirect ==
    [][/\ event'.name = "loginResolved" =>
             SetThenRedirect(event'.in,
                             CASE event'.in.user.role = "donor" -> "/donor-dashboard"
                               [] event'.in.user.role = "ngo" -> "/ngo-dashboard"
                               [] event'.in.user.role = "volunteer" -> "/volunteer-dashboard")
       /\ event'.name = "registerResolved" =>
             SetThenRedirect(event'.in, "/select-role")
       /\ \A j \in 1..Len(calls') :
             calls'[j].fn = "navigate" =>
                \E i \in 1..(j - 1) : calls'[i].fn = "localStorage.setItem"
      ]_vars

(* C6 witness: a login of an NGO user has replaced another session *)
LoginRedirected ==
    /\ event.name = "loginResolved"
    /\ event.in.user.role = "ngo"
    /\ token = event.in.token
    /\ \E i \in 1..Len(calls) : calls[i] = Call("navigate", "/ngo-dashboard")
    /\ \E i \in 1..Len(calls) : calls[i] = Call("axios.get", token)

(* C7: a profile fetch sent for token T that settles when T is no longer   *)
(* the current token (after logout, or after setAuth with another token)   *)
(* is still applied to the current session: success sets the user to the   *)
(* fetched profile, failure clears the current token, user and stored      *)
(* token.                                                                  *)
StaleFetchStillApplied ==
    [][/\ (event'.name = "meResolved" /\ event'.in.bearer # token) =>
             /\ event'.in.current = token
             /\ user' = event'.in.data
             /\ token' = token
             /\ storage' = storage
       /\ (event'.name = "meRejected" /\ event'.in.bearer # token) =>
             /\ event'.in.current = token
             /\ token' = Null
             /\ user' = NullObj
             /\ getItem(storage', TOKEN_KEY) = Null
      ]_vars

(* C7 witness: the fetch of an earlier session succeeded after logout, or  *)
(* after setAuth with another token, and its profile is the user now       *)
StaleProfileApplied ==
    /\ event.name = "meResolved"
    /\ event.in.bearer # event.in.current
    /\ user = event.in.data

(* C8: the map component holds at most one live map, and while it is       *)
(* mounted the markers on the map are exactly one per entry of the current *)
(* markers list that has a position, in order, none of an earlier list     *)
(* left and none twice.                                                    *)
Positioned(markers) == SelectSeq(markers, LAMBDA d : d.position # NullObj)

MarkersMatchList ==
    /\ liveMaps <= 1
    /\ mapMounted =>
          LET want == Positioned(markersProp)
          IN /\ liveMaps = 1
             /\ Len(markersRef) = Len(want)
             /\ \A i \in 1..Len(want) : markersRef[i].latlng = want[i].position
             /\ layers = Range(markersRef)
             /\ Cardinality(layers) = Len(want)

(* C8 witness: a list of two entries, one without position, has replaced   *)
(* an earlier list whose markers were on the map                           *)
MarkersReplaced ==
    /\ mapMounted
    /\ Len(markersProp) = 2
    /\ Len(markersRef) = 1
    /\ markersRef[1].id > 0

(* C9: validation gates the HTTP calls: a sign-in with an empty email or   *)
(* password, or a sign-up with an empty name, email or password or with a  *)
(* password different from the confirmation, sends no request, shows one   *)
(* error notification and leaves the page's loading flag and the session   *)
(* unchanged; a POST to /api/auth/login or /api/auth/register is sent only *)
(* when the respective validation passes.                                  *)
SignInValid(f) == f.email # "" /\ f.password # ""

SignUpValid(f) ==
    f.name # "" /\ f.email # "" /\ f.password # "" /\ f.password = f.confirm

Refused ==
    /\ Len(calls') = 1 /\ calls'[1].fn = "toast.error"
    /\ posts' = posts
    /\ pageLoading' = pageLoading
    /\ SessionUnchanged

ValidationGatesRequests ==
    [][/\ (event'.name = "handleSignIn" /\ ~SignInValid(event'.in)) => Refused
       /\ (event'.name = "handleSignUp" /\ ~SignUpValid(event'.in)) => Refused
       /\ \A i \in 1..Len(calls') :
             calls'[i].fn = "axios.post" =>
                \/ /\ calls'[i].arg = LOGIN_URL
                   /\ event'.name = "handleSignIn" /\ SignInValid(event'.in)
                \/ /\ calls'[i].arg = REGISTER_URL
                   /\ event'.name = "handleSignUp" /\ SignUpValid(event'.in)
      ]_vars

(* C9 witness: a sign-up whose confirmation differs was refused *)
MismatchRefused ==
    /\ event.name = "handleSignUp"
    /\ event.in.name # "" /\ event.in.email # "" /\ event.in.password # ""
    /\ event.in.password # event.in.confirm
    /\ calls = <<Call("toast.error", "Passwords do not match")>>
    /\ posts = {} /\ ~pageLoading

(* C10: the context's loading flag is true until the provider has mounted, *)
(* is false after mount when no token is stored and after any profile      *)
(* fetch has settled, is eventually false when every request settles, and  *)
(* once false never becomes true again, also while later profile fetches   *)
(* are in flight.                                                          *)
LoadingSettlesForGood ==
    /\ [](~mounted => loading)
    /\ [][(~mounted /\ mounted' /\ StoredToken = Null) => ~loading']_vars
    /\ [][event'.name \in {"meResolved", "meRejected"} => ~loading']_vars
    /\ [][~loading => ~loading']_vars
    /\ <>[](~loading)

(* C10 witness: loading is false while a later profile fetch is in flight *)
NotLoadingWhileFetching ==
    /\ mounted /\ ~loading
    /\ event.name \in {"loginResolved", "registerResolved"}
    /\ pendingMe[token] > 0

=============================================================================
